---- MODULE Spec2Model ----
(***************************************************************************)
(* Model of the radar simulation page (src/app/radar-simulation/page.tsx),  *)
(* its control panel (src/components/ControlPanel.tsx) and the physics      *)
(* library (src/unnamed/part_000, and its copy src/lib/radarPhysics.ts).    *)
(*                                                                          *)
(* React state model.  The page is a function component: the values of its  *)
(* useState hooks are fixed for one render, event handlers and props read   *)
(* the values of the last render, every setState call is queued on its hook *)
(* and the next render applies the queued updates in order.  useEffect      *)
(* callbacks run after the render that changed one of their dependencies    *)
(* and before the following render.                                         *)
(*                                                                          *)
(* Units.  radarCrossSection is counted in thousandths of a square metre    *)
(* (1 = 0.001), absorptionCoefficient in hundredths (95 = 0.95), progress   *)
(* in hundredths (2 = 0.02), sensitivity in hundredths of a dBm; positions, *)
(* range, power and frequency are the source's own numbers.                 *)
(***************************************************************************)
EXTENDS Integers, Sequences, FiniteSets, TLC

VARIABLES planeParams, radarParams, radarResult, radarWaves, waveCounter,
          stealthMode, queue, effects, timers, now, retired, twin

vars == <<planeParams, radarParams, radarResult, radarWaves, waveCounter,
          stealthMode, queue, effects, timers, now, retired, twin>>

(* ------------------------------ bounds -------------------------------- *)

\* setState calls that may be waiting for the next render
MaxPending == 1
\* spawn ticks in a run of the whole page / of the pulse simulation
MaxSpawns == 1
MaxSpawnsP == 2
\* advance ticks a pulse may see in a run of the whole page
MaxAdvances == 1
\* largest reading of the clock (Date.now(), counted from page load)
MaxNow == 1
\* setState calls that may be waiting for one render when the handlers are
\* called in quick succession
MaxRapid == 2
\* spawn ticks of the simulation that keeps the cadence of the two intervals
MaxCadenceSpawns == 3

\* values the control panel's inputs are moved to
GeometryValues == {"fighter"}
XValues == {20}
YValues == {8}
ZValues == {15}
AngleValues == {90}
RCSValues == {1}
AbsorptionPercentValues == {95}
RangeValues == {10}
\* value the Position Z slider is moved to in a quick succession of edits
RapidZValues == {5}

\* arguments the physics library is called with on its own
\* the ends of the control panel's sliders
EndXValues == {-30, 30}
EndYValues == {30}
EndZValues == {-30}
EndRangeValues == {10}
EndAngleValues == {360}
EndRCSValues == {1000}
EndAbsorptionPercentValues == {0, 95}

PhysicsGeometries == {"stealth", "fighter", "conventional"}
PhysicsAngles == {0, 30, 45, 90, 150, 270}
PhysicsRCS == {1, 10}
PhysicsAbsorptions == {0, 95}
PhysicsPositions == {[x |-> 0, y |-> 0, z |-> 0],
                     [x |-> 10, y |-> 8, z |-> 15],
                     [x |-> 6000, y |-> 0, z |-> 8000],
                     [x |-> 6000, y |-> 1, z |-> 8000]}
PhysicsRanges == {10, 20}
\* signal-to-noise ratios the sensitivity is tuned to for the first call and
\* for the later ones, in hundredths of a decibel
FirstSNRValues == {-400, 300}
SNRValues == {-1001, -1000, -999, -400, -1, 0, 1, 300, 301, 999, 1000, 1001}

(* ------------------------- program constants -------------------------- *)

ProgressStep == 2
DistanceStep == 1
ProgressLimit == 100
MaxDistance == 40

OPTIMAL_STEALTH_PARAMS ==
    [radarCrossSection |-> 1, absorptionCoefficient |-> 95,
     geometry |-> "stealth", angleToRadar |-> 0]

(* ----------------------------- helpers -------------------------------- *)

\* mutant: the check compares the absorption with 0.9
isOptimalStealthConfig_WrongAbsorption(params) ==
    /\ params.radarCrossSection = OPTIMAL_STEALTH_PARAMS.radarCrossSection
    /\ params.absorptionCoefficient = 90
    /\ params.geometry = OPTIMAL_STEALTH_PARAMS.geometry
    /\ params.angleToRadar = OPTIMAL_STEALTH_PARAMS.angleToRadar


\* mutant: the check does not look at the angle
isOptimalStealthConfig_IgnoresAngle(params) ==
    /\ params.radarCrossSection = OPTIMAL_STEALTH_PARAMS.radarCrossSection
    /\ params.absorptionCoefficient = OPTIMAL_STEALTH_PARAMS.absorptionCoefficient
    /\ params.geometry = OPTIMAL_STEALTH_PARAMS.geometry

isOptimalStealthConfig(params) ==
    /\ params.radarCrossSection = OPTIMAL_STEALTH_PARAMS.radarCrossSection
    /\ params.absorptionCoefficient = OPTIMAL_STEALTH_PARAMS.absorptionCoefficient
    /\ params.geometry = OPTIMAL_STEALTH_PARAMS.geometry
    /\ params.angleToRadar = OPTIMAL_STEALTH_PARAMS.angleToRadar

getOptimalStealthParams(currentPosition) ==
    [radarCrossSection |-> OPTIMAL_STEALTH_PARAMS.radarCrossSection,
     absorptionCoefficient |-> OPTIMAL_STEALTH_PARAMS.absorptionCoefficient,
     geometry |-> OPTIMAL_STEALTH_PARAMS.geometry,
     angleToRadar |-> OPTIMAL_STEALTH_PARAMS.angleToRadar,
     position |-> currentPosition]

\* { ...prev, ...params }: the fields of params replace those of prev
Spread(prev, params) ==
    [k \in DOMAIN prev |-> IF k \in DOMAIN params THEN params[k] ELSE prev[k]]

\* a queued setState call: a functional updater ("merge", "append",
\* "advance") or a plain value ("set")
Update(kind, arg) == [kind |-> kind, arg |-> arg]

EmptyQueue == [plane |-> <<>>, radar |-> <<>>, result |-> <<>>,
               waves |-> <<>>, counter |-> 0, stealth |-> <<>>]

\* setState calls waiting for the next render
Pending == Len(queue.plane) + Len(queue.radar) + Len(queue.result)
             + Len(queue.waves) + Len(queue.stealth)

\* mutant: the filter drops a pulse one step early
AdvanceWaves_DropsEarly(prev) ==
    LET moved == [i \in 1..Len(prev) |->
                    [id |-> prev[i].id,
                     progress |-> prev[i].progress + ProgressStep,
                     distance |-> prev[i].distance + DistanceStep]]
        keep(wave) == wave.progress < ProgressLimit /\ wave.distance < MaxDistance - 1
    IN SelectSeq(moved, keep)

\* mutant: the map forgets the progress
AdvanceWaves_SkipsProgress(prev) ==
    LET moved == [i \in 1..Len(prev) |->
                    [id |-> prev[i].id,
                     progress |-> prev[i].progress,
                     distance |-> prev[i].distance + DistanceStep]]
        keep(wave) == wave.progress < ProgressLimit /\ wave.distance < MaxDistance
    IN SelectSeq(moved, keep)

\* mutant: the filter keeps a pulse that has reached the display radius
AdvanceWaves_KeepsAtLimit(prev) ==
    LET moved == [i \in 1..Len(prev) |->
                    [id |-> prev[i].id,
                     progress |-> prev[i].progress + ProgressStep,
                     distance |-> prev[i].distance + DistanceStep]]
        keep(wave) == wave.progress < ProgressLimit /\ wave.distance <= MaxDistance
    IN SelectSeq(moved, keep)

\* mutant: the map adds 0.03 to the progress
AdvanceWaves_FastProgress(prev) ==
    LET moved == [i \in 1..Len(prev) |->
                    [id |-> prev[i].id,
                     progress |-> prev[i].progress + ProgressStep + 1,
                     distance |-> prev[i].distance + DistanceStep]]
        keep(wave) == wave.progress < ProgressLimit /\ wave.distance < MaxDistance
    IN SelectSeq(moved, keep)

\* mutant: the filter looks at the progress only
AdvanceWaves_ProgressOnly(prev) ==
    LET moved == [i \in 1..Len(prev) |->
                    [id |-> prev[i].id,
                     progress |-> prev[i].progress + ProgressStep,
                     distance |-> prev[i].distance + DistanceStep]]
        keep(wave) == wave.progress < ProgressLimit
    IN SelectSeq(moved, keep)

\* mutant: the updater hands the list back as it is
AdvanceWaves_Idle(prev) == prev

\* the updater of the advance interval: map, then filter
AdvanceWaves(prev) ==
    LET moved == [i \in 1..Len(prev) |->
                    [id |-> prev[i].id,
                     progress |-> prev[i].progress + ProgressStep,
                     distance |-> prev[i].distance + DistanceStep]]
        keep(wave) == wave.progress < ProgressLimit /\ wave.distance < MaxDistance
    IN SelectSeq(moved, keep)

\* mutant: the new pulse is put in front of the list
SpawnWave_Prepends(prev, id) ==
    <<[id |-> id, progress |-> 0, distance |-> 0]>> \o prev

\* the updater of the spawn interval
SpawnWave(prev, id) ==
    Append(prev, [id |-> id, progress |-> 0, distance |-> 0])

ApplyObjectUpdate(prev, u) ==
    IF u.kind = "merge" THEN Spread(prev, u.arg) ELSE u.arg

ApplyWaveUpdate(prev, u) ==
    IF u.kind = "append" THEN SpawnWave(prev, u.arg) ELSE AdvanceWaves(prev)

RECURSIVE ApplyObjectQueue(_, _)
ApplyObjectQueue(prev, q) ==
    IF q = <<>> THEN prev
    ELSE ApplyObjectQueue(ApplyObjectUpdate(prev, Head(q)), Tail(q))

RECURSIVE ApplyWaveQueue(_, _)
ApplyWaveQueue(prev, q) ==
    IF q = <<>> THEN prev
    ELSE ApplyWaveQueue(ApplyWaveUpdate(prev, Head(q)), Tail(q))

ApplyValueQueue(prev, q) == IF q = <<>> THEN prev ELSE q[Len(q)]

WaveIds(waves) == {waves[i].id : i \in 1..Len(waves)}

(* ------------------------- the physics library ------------------------ *)
(* Numbers of the library are carried exactly where they are rational and  *)
(* in fixed point where they are not:                                       *)
(*   - geometry factors in thousandths, the angular factor in sixteenths;   *)
(*     calculateEffectiveRCS in units of 1/16 000 000 m2 and the            *)
(*     effectiveRCS of a RadarResult in units of 1/1 600 000 000 m2;        *)
(*   - a square root as the number under the root with its integer part;    *)
(*   - an atan2 angle as the reduced direction it belongs to;               *)
(*   - decibels in thousandths inside the radar equation, signalStrength    *)
(*     and sensitivity in hundredths of a dBm (accurate to a few            *)
(*     hundredths), detectionProbability in units of 1/2000.                *)

DetectionThreshold == 600
LibDetectionThreshold == 1000

RECURSIVE GCD(_, _)
GCD(a, b) == IF b = 0 THEN a ELSE GCD(b, a % b)

Abs(n) == IF n < 0 THEN 0 - n ELSE n

Max(a, b) == IF a >= b THEN a ELSE b

\* the largest r in lo..hi with r * r <= n
RECURSIVE ISqrtBetween(_, _, _)
ISqrtBetween(n, lo, hi) ==
    IF lo = hi THEN lo
    ELSE LET mid == (lo + hi + 1) \div 2
         IN IF mid * mid <= n THEN ISqrtBetween(n, mid, hi)
                              ELSE ISqrtBetween(n, lo, mid - 1)

\* Math.sqrt(n) for an integer n < 2^31
Sqrt(n) == [square |-> n, floor |-> ISqrtBetween(n, 0, 46340)]

\* root > limit, for a square root and an integer limit >= 0
GreaterThan(root, limit) ==
    \/ root.floor > limit
    \/ root.floor = limit /\ root.square > limit * limit

\* Math.atan2(y, x): equal for two arguments exactly when they point the
\* same way; atan2(0, 0) is 0, the angle of the direction (0, 1)
Atan2(y, x) ==
    IF y = 0 /\ x = 0 THEN [y |-> 0, x |-> 1]
    ELSE LET g == GCD(Abs(y), Abs(x)) IN [y |-> y \div g, x |-> x \div g]

\* Math.sin of an angle in degrees that is a multiple of 30 or of 45: its
\* sign and its square in quarters
Sine(degrees) ==
    LET a == degrees % 360
    IN CASE a \in {0, 180}   -> [sign |-> 0, square |-> 0]
         [] a \in {30, 150}  -> [sign |-> 1, square |-> 1]
         [] a \in {45, 135}  -> [sign |-> 1, square |-> 2]
         [] a \in {60, 120}  -> [sign |-> 1, square |-> 3]
         [] a = 90           -> [sign |-> 1, square |-> 4]
         [] a \in {210, 330} -> [sign |-> -1, square |-> 1]
         [] a \in {225, 315} -> [sign |-> -1, square |-> 2]
         [] a \in {240, 300} -> [sign |-> -1, square |-> 3]
         [] a = 270          -> [sign |-> -1, square |-> 4]

\* geometryFactors, in thousandths
geometryFactors == [stealth |-> 1, fighter |-> 5000, conventional |-> 25000]

\* mutant: the angular factor of the other geometries grows where the sine
\* is positive only
calculateEffectiveRCS_FrontOnly(params) ==
    LET sine == Sine(params.angleToRadar)
        baseFactor == geometryFactors[params.geometry]
        angularFactor == IF params.geometry = "stealth"
                         THEN 16 + 50 * sine.square * sine.square
                         ELSE 16 + 2 * 4 * Max(0, sine.sign) * sine.square
    IN params.radarCrossSection * baseFactor * angularFactor

\* radarCrossSection * baseFactor * angularFactor, with
\* angularFactor = 1 + 50 sin^4 or 1 + 2 sin^2 in sixteenths
calculateEffectiveRCS(params) ==
    LET sine == Sine(params.angleToRadar)
        baseFactor == geometryFactors[params.geometry]
        angularFactor == IF params.geometry = "stealth"
                         THEN 16 + 50 * sine.square * sine.square
                         ELSE 16 + 2 * 4 * sine.square
    IN params.radarCrossSection * baseFactor * angularFactor

\* the integer part of log2(n), n >= 1
RECURSIVE Log2Floor(_)
Log2Floor(n) == IF n < 2 THEN 0 ELSE 1 + Log2Floor(n \div 2)

\* the first bits of the fraction of log2(m / 2^14), for 2^14 <= m < 2^15:
\* squaring the mantissa doubles its logarithm
RECURSIVE Log2Fraction(_, _)
Log2Fraction(m, bits) ==
    IF bits = 0 THEN 0
    ELSE LET squared == (m * m) \div 16384
         IN IF squared >= 32768
            THEN 2^(bits - 1) + Log2Fraction(squared \div 2, bits - 1)
            ELSE Log2Fraction(squared, bits - 1)

\* 10 * Math.log10(n) in thousandths of a decibel, for an integer n >= 1
TenLog10(n) ==
    LET e == Log2Floor(n)
        m == IF e >= 14 THEN n \div 2^(e - 14) ELSE n * 2^(14 - e)
    IN (e * 301030) \div 100 + (Log2Fraction(m, 10) * 30103) \div 10240

\* the float Infinity: above every finite signal strength, and still above
\* every finite number when a sensitivity is subtracted from it
Infinity == 1000000000

\* 10 * log10(Pr * 1000) in hundredths of a dBm, with
\* Pr = (Pt * wavelength^2 * effectiveRCS) / ((4 pi)^3 * R^4):
\*   Pt = power * 1000, wavelength^2 = 9 / (100 f^2),
\*   effectiveRCS = baseRCS * (100 - absorption) / 1 600 000 000,
\*   4 pi = 125663706 / 10^7 and R^4 the square of the number under the root
\* For R = 0 the division gives Pr = Infinity (the numerator is positive for
\* every aircraft of the sets above) and the logarithm of Infinity is
\* Infinity.
SignalStrength(plane, radar, R) ==
    LET baseRCS == calculateEffectiveRCS(plane)
    IN IF R.square = 0 THEN Infinity
       ELSE (   TenLog10(radar.power) + TenLog10(9) + TenLog10(baseRCS)
              + TenLog10(100 - plane.absorptionCoefficient)
              - TenLog10(160000) - 2 * TenLog10(radar.frequency)
              - 3 * (TenLog10(125663706) - 70000)
              - 2 * TenLog10(R.square) ) \div 10

\* mutant: the ramp SNR / 10 starts at SNR = 0
DetectionProbability_RampFromZero(SNR) ==
    IF SNR > 1000 THEN 2000
    ELSE IF SNR >= 0 THEN 2 * SNR
    ELSE IF SNR > -1000 THEN Max(0, SNR + 1000)
    ELSE 0

\* the if chain on SNR (in hundredths of a decibel): 1.0, SNR / 10,
\* max(0, (SNR + 10) / 20) or 0, in units of 1/2000
DetectionProbability(SNR) ==
    IF SNR > 1000 THEN 2000
    ELSE IF SNR > 0 THEN 2 * SNR
    ELSE IF SNR > -1000 THEN Max(0, SNR + 1000)
    ELSE 0

\* mutant: the range gate compares metres with kilometres
RadarReturn_GateInKilometres(plane, radar, threshold) ==
    LET position == plane.position
        distance == Sqrt(position.x * position.x + position.y * position.y
                           + position.z * position.z)
        angle == Atan2(position.x, position.z)
    IN IF GreaterThan(distance, radar.range)
       THEN [distance |-> distance, angle |-> angle,
             detectionProbability |-> 0, signalStrength |-> -20000,
             effectiveRCS |-> 0, isDetected |-> FALSE]
       ELSE LET signalStrength == SignalStrength(plane, radar, distance)
                SNR == signalStrength - radar.sensitivity
            IN [distance |-> distance, angle |-> angle,
                detectionProbability |-> DetectionProbability(SNR),
                signalStrength |-> signalStrength,
                effectiveRCS |-> calculateEffectiveRCS(plane)
                                   * (100 - plane.absorptionCoefficient),
                isDetected |-> DetectionProbability(SNR) > threshold]

\* mutant: the range gate is closed for a target at the range itself
RadarReturn_GateAtRange(plane, radar, threshold) ==
    LET position == plane.position
        distance == Sqrt(position.x * position.x + position.y * position.y
                           + position.z * position.z)
        angle == Atan2(position.x, position.z)
        limit == radar.range * 1000
    IN IF GreaterThan(distance, limit) \/ distance.square = limit * limit
       THEN [distance |-> distance, angle |-> angle,
             detectionProbability |-> 0, signalStrength |-> -20000,
             effectiveRCS |-> 0, isDetected |-> FALSE]
       ELSE LET signalStrength == SignalStrength(plane, radar, distance)
                SNR == signalStrength - radar.sensitivity
            IN [distance |-> distance, angle |-> angle,
                detectionProbability |-> DetectionProbability(SNR),
                signalStrength |-> signalStrength,
                effectiveRCS |-> calculateEffectiveRCS(plane)
                                   * (100 - plane.absorptionCoefficient),
                isDetected |-> DetectionProbability(SNR) > threshold]

\* the body the two copies of calculateRadarReturn share; they differ in
\* the threshold of isDetected only
RadarReturn(plane, radar, threshold) ==
    LET position == plane.position
        distance == Sqrt(position.x * position.x + position.y * position.y
                           + position.z * position.z)
        angle == Atan2(position.x, position.z)
    IN IF GreaterThan(distance, radar.range * 1000)
       THEN [distance |-> distance, angle |-> angle,
             detectionProbability |-> 0, signalStrength |-> -20000,
             effectiveRCS |-> 0, isDetected |-> FALSE]
       ELSE LET signalStrength == SignalStrength(plane, radar, distance)
                SNR == signalStrength - radar.sensitivity
            IN [distance |-> distance, angle |-> angle,
                detectionProbability |-> DetectionProbability(SNR),
                signalStrength |-> signalStrength,
                effectiveRCS |-> calculateEffectiveRCS(plane)
                                   * (100 - plane.absorptionCoefficient),
                isDetected |-> DetectionProbability(SNR) > threshold]

\* the copy the page uses (src/unnamed/part_000)
calculateRadarReturn(plane, radar) ==
    RadarReturn(plane, radar, DetectionThreshold)

\* the copy of src/lib/radarPhysics.ts
libCalculateRadarReturn(plane, radar) ==
    RadarReturn(plane, radar, LibDetectionThreshold)

(* ------------------------------- Init --------------------------------- *)

\* a run of the pulse simulation on its own: its clock, its rendered pulse
\* list and the updates queued on the list
FirstRun == [now |-> 0, counter |-> 0, radarWaves |-> <<>>, waves |-> <<>>]

\* the page after its first render: the effects of the mount are pending
Init ==
    /\ planeParams = [radarCrossSection |-> 10, absorptionCoefficient |-> 80,
                      geometry |-> "stealth", angleToRadar |-> 0,
                      position |-> [x |-> 10, y |-> 8, z |-> 15]]
    /\ radarParams = [frequency |-> 10, power |-> 500, range |-> 100,
                      sensitivity |-> -9000]
    /\ radarResult = [distance |-> Sqrt(0), angle |-> Atan2(0, 0),
                      detectionProbability |-> 0, signalStrength |-> -20000,
                      effectiveRCS |-> 0, isDetected |-> FALSE]
    /\ radarWaves = <<>>
    /\ waveCounter = 0
    /\ stealthMode = FALSE
    /\ queue = EmptyQueue
    /\ effects = {"calc", "stealth", "intervals"}
    /\ timers = FALSE
    /\ now = 0
    /\ retired = {}
    /\ twin = [a |-> FirstRun, b |-> FirstRun]

(* ------------------------------ handlers ------------------------------ *)

handlePlaneParamsChange(params) ==
    /\ Pending < MaxPending
    /\ queue' = [queue EXCEPT !.plane = Append(@, Update("merge", params))]
    /\ UNCHANGED <<planeParams, radarParams, radarResult, radarWaves,
                   waveCounter, stealthMode, effects, timers, now, retired,
                   twin>>

handleRadarParamsChange(params) ==
    /\ Pending < MaxPending
    /\ queue' = [queue EXCEPT !.radar = Append(@, Update("merge", params))]
    /\ UNCHANGED <<planeParams, radarParams, radarResult, radarWaves,
                   waveCounter, stealthMode, effects, timers, now, retired,
                   twin>>

\* mutant: entering stealth sets the flag and leaves the configuration
toggleStealthMode_FlagOnly ==
    /\ Pending < MaxPending
    /\ IF ~stealthMode
       THEN queue' = [queue EXCEPT !.stealth = Append(@, TRUE)]
       ELSE queue' = [queue EXCEPT !.stealth = Append(@, FALSE)]
    /\ UNCHANGED <<planeParams, radarParams, radarResult, radarWaves,
                   waveCounter, stealthMode, effects, timers, now, retired,
                   twin>>

\* mutant: leaving stealth also puts the geometry back to "fighter"
toggleStealthMode_ExitResets ==
    /\ Pending < MaxPending
    /\ IF ~stealthMode
       THEN queue' = [queue EXCEPT
                        !.plane = Append(@, Update("set",
                                     getOptimalStealthParams(planeParams.position))),
                        !.stealth = Append(@, TRUE)]
       ELSE queue' = [queue EXCEPT
                        !.plane = Append(@, Update("merge", [geometry |-> "fighter"])),
                        !.stealth = Append(@, FALSE)]
    /\ UNCHANGED <<planeParams, radarParams, radarResult, radarWaves,
                   waveCounter, stealthMode, effects, timers, now, retired,
                   twin>>


\* mutant: entering stealth also sends a pulse
toggleStealthMode_EmitsPulse ==
    /\ Pending < MaxPending
    /\ IF ~stealthMode
       THEN queue' = [queue EXCEPT
                        !.plane = Append(@, Update("set",
                                     getOptimalStealthParams(planeParams.position))),
                        !.waves = Append(@, Update("append", now)),
                        !.stealth = Append(@, TRUE)]
       ELSE queue' = [queue EXCEPT !.stealth = Append(@, FALSE)]
    /\ UNCHANGED <<planeParams, radarParams, radarResult, radarWaves,
                   waveCounter, stealthMode, effects, timers, now, retired,
                   twin>>


toggleStealthMode ==
    /\ Pending < MaxPending
    /\ IF ~stealthMode
       THEN queue' = [queue EXCEPT
                        !.plane = Append(@, Update("set",
                                     getOptimalStealthParams(planeParams.position))),
                        !.stealth = Append(@, TRUE)]
       ELSE queue' = [queue EXCEPT !.stealth = Append(@, FALSE)]
    /\ UNCHANGED <<planeParams, radarParams, radarResult, radarWaves,
                   waveCounter, stealthMode, effects, timers, now, retired,
                   twin>>

(* --------------------------- control panel ---------------------------- *)

GeometrySelect ==
    \E value \in GeometryValues :
        handlePlaneParamsChange([geometry |-> value])

PositionXSlider ==
    \E value \in XValues :
        handlePlaneParamsChange(
            [position |-> [planeParams.position EXCEPT !.x = value]])

PositionYSlider ==
    \E value \in YValues :
        handlePlaneParamsChange(
            [position |-> [planeParams.position EXCEPT !.y = value]])

PositionZSlider ==
    \E value \in ZValues :
        handlePlaneParamsChange(
            [position |-> [planeParams.position EXCEPT !.z = value]])

AngleSlider ==
    \E value \in AngleValues :
        handlePlaneParamsChange([angleToRadar |-> value])

RCSSlider ==
    \E value \in RCSValues :
        handlePlaneParamsChange([radarCrossSection |-> value])

\* the slider works in percent and hands back value / 100: in hundredths,
\* the coefficient is the slider's value
AbsorptionSlider ==
    \E value \in AbsorptionPercentValues :
        handlePlaneParamsChange([absorptionCoefficient |-> value])

RangeSlider ==
    \E value \in RangeValues :
        handleRadarParamsChange([range |-> value])

(* ------------------------------ timers -------------------------------- *)

\* Date.now() moves on
ClockAdvance ==
    /\ now < MaxNow
    /\ now' = now + 1
    /\ UNCHANGED <<planeParams, radarParams, radarResult, radarWaves,
                   waveCounter, stealthMode, queue, effects, timers, retired,
                   twin>>

\* callback of the 1000 ms interval
SpawnTick(cap) ==
    /\ timers
    /\ Pending < MaxPending
    /\ waveCounter + queue.counter < cap
    /\ queue' = [queue EXCEPT
                   !.counter = @ + 1,
                   !.waves = Append(@, Update("append", now))]
    /\ UNCHANGED <<planeParams, radarParams, radarResult, radarWaves,
                   waveCounter, stealthMode, effects, timers, now, retired,
                   twin>>

\* callback of the 50 ms interval
AdvanceTick(cap) ==
    /\ timers
    /\ Pending < MaxPending
    /\ \A i \in 1..Len(radarWaves) : radarWaves[i].distance < cap
    /\ queue' = [queue EXCEPT !.waves = Append(@, Update("advance", 0))]
    /\ UNCHANGED <<planeParams, radarParams, radarResult, radarWaves,
                   waveCounter, stealthMode, effects, timers, now, retired,
                   twin>>

(* ------------------------- render and effects ------------------------- *)

\* a render applies every queued update; an effect is scheduled when one of
\* its dependencies is a new value (a setPlaneParams call always makes a new
\* object)
Render ==
    /\ queue # EmptyQueue
    /\ effects = {}
    /\ planeParams' = ApplyObjectQueue(planeParams, queue.plane)
    /\ radarParams' = ApplyObjectQueue(radarParams, queue.radar)
    /\ radarWaves' = ApplyWaveQueue(radarWaves, queue.waves)
    /\ waveCounter' = waveCounter + queue.counter
    /\ stealthMode' = ApplyValueQueue(stealthMode, queue.stealth)
    /\ queue' = EmptyQueue
    /\ radarResult' = ApplyValueQueue(radarResult, queue.result)
    /\ effects' = (IF queue.plane # <<>> \/ queue.radar # <<>>
                   THEN {"calc"} ELSE {})
                  \cup (IF queue.plane # <<>> \/ stealthMode' # stealthMode
                        THEN {"stealth"} ELSE {})
    /\ retired' = retired \cup (WaveIds(radarWaves) \ WaveIds(radarWaves'))
    /\ UNCHANGED <<timers, now, twin>>

\* the recompute effect: setRadarResult(calculateRadarReturn(...)) with the
\* configuration of the last render
Recompute(q) ==
    IF "calc" \in effects
    THEN Append(q, calculateRadarReturn(planeParams, radarParams))
    ELSE q

\* mutant: the stealth effect never deactivates
RunEffects_NoCheck ==
    /\ effects # {}
    /\ queue' = [queue EXCEPT !.result = Recompute(@)]
    /\ timers' = (timers \/ "intervals" \in effects)
    /\ effects' = {}
    /\ UNCHANGED <<planeParams, radarParams, radarResult, radarWaves,
                   waveCounter, stealthMode, now, retired, twin>>

\* mutant: the stealth effect sets the flag to the result of the check
RunEffects_SyncsFlag ==
    /\ effects # {}
    /\ queue' = [queue EXCEPT
                    !.result = Recompute(@),
                    !.stealth =
                        IF /\ "stealth" \in effects
                           /\ stealthMode # isOptimalStealthConfig(planeParams)
                        THEN Append(@, isOptimalStealthConfig(planeParams))
                        ELSE @]
    /\ timers' = (timers \/ "intervals" \in effects)
    /\ effects' = {}
    /\ UNCHANGED <<planeParams, radarParams, radarResult, radarWaves,
                   waveCounter, stealthMode, now, retired, twin>>

\* the pending useEffect callbacks, in the order of their declaration
RunEffects ==
    /\ effects # {}
    /\ queue' = [queue EXCEPT
                    !.result = Recompute(@),
                    !.stealth =
                        IF /\ "stealth" \in effects
                           /\ stealthMode
                           /\ ~isOptimalStealthConfig(planeParams)
                        THEN Append(@, FALSE)
                        ELSE @]
    /\ timers' = (timers \/ "intervals" \in effects)
    /\ effects' = {}
    /\ UNCHANGED <<planeParams, radarParams, radarResult, radarWaves,
                   waveCounter, stealthMode, now, retired, twin>>

(* --------------------------- specifications --------------------------- *)

\* the whole page, with a few ticks of the two intervals
Next ==
    \/ GeometrySelect
    \/ PositionXSlider
    \/ PositionYSlider
    \/ PositionZSlider
    \/ AngleSlider
    \/ RCSSlider
    \/ AbsorptionSlider
    \/ RangeSlider
    \/ toggleStealthMode
    \/ SpawnTick(MaxSpawns)
    \/ AdvanceTick(MaxAdvances)
    \/ Render
    \/ RunEffects

Spec == Init /\ [][Next]_vars

\* the pulse simulation: the two intervals, the clock and the renders
NextPulse ==
    \/ ClockAdvance
    \/ SpawnTick(MaxSpawnsP)
    \/ AdvanceTick(MaxDistance)
    \/ Render
    \/ RunEffects

SpecPulse == Init /\ [][NextPulse]_vars

(* ------------------------ the library on its own ---------------------- *)

Placeholder == [distance |-> Sqrt(0), angle |-> Atan2(0, 0),
                detectionProbability |-> 0, signalStrength |-> -20000,
                effectiveRCS |-> 0, isDetected |-> FALSE]

\* the distance of a position to the radar
Distance(position) ==
    Sqrt(position.x * position.x + position.y * position.y
           + position.z * position.z)

\* calculateRadarReturn is about to be called with arguments from the sets
\* above; the sensitivity is the signal strength of the target (the page's
\* -90 dBm where that is not finite) minus one of the signal-to-noise ratios
InitPhysics ==
    /\ planeParams \in [radarCrossSection : PhysicsRCS,
                        absorptionCoefficient : PhysicsAbsorptions,
                        geometry : PhysicsGeometries,
                        angleToRadar : PhysicsAngles,
                        position : PhysicsPositions]
    /\ \E range \in PhysicsRanges, snr \in FirstSNRValues :
         LET radar == [frequency |-> 10, power |-> 500, range |-> range,
                       sensitivity |-> 0]
             signal == SignalStrength(planeParams, radar,
                                      Distance(planeParams.position))
         IN radarParams =
              [radar EXCEPT !.sensitivity =
                  (IF signal = Infinity THEN -9000 ELSE signal) - snr]
    /\ radarResult = Placeholder
    /\ radarWaves = <<>>
    /\ waveCounter = 0
    /\ stealthMode = FALSE
    /\ queue = EmptyQueue
    /\ effects = {"calc"}
    /\ timers = FALSE
    /\ now = 0
    /\ retired = {}
    /\ twin = [a |-> FirstRun, b |-> FirstRun]

\* the call
Evaluate ==
    /\ effects = {"calc"}
    /\ radarResult' = calculateRadarReturn(planeParams, radarParams)
    /\ effects' = {}
    /\ UNCHANGED <<planeParams, radarParams, radarWaves, waveCounter,
                   stealthMode, queue, timers, now, retired, twin>>

\* a second call with another sensitivity, everything else as it was
Retune ==
    /\ effects = {}
    /\ radarResult.effectiveRCS > 0
    /\ radarResult.signalStrength # Infinity
    /\ \E snr \in SNRValues :
         radarParams' = [radarParams EXCEPT
                           !.sensitivity = radarResult.signalStrength - snr]
    /\ radarResult' = calculateRadarReturn(planeParams, radarParams')
    /\ UNCHANGED <<planeParams, radarWaves, waveCounter, stealthMode, queue,
                   effects, timers, now, retired, twin>>

\* a second call with the aircraft turned by half a turn
Rotate ==
    /\ effects = {}
    /\ planeParams.angleToRadar < 360
    /\ planeParams' = [planeParams EXCEPT !.angleToRadar = @ + 180]
    /\ radarResult' = calculateRadarReturn(planeParams', radarParams)
    /\ UNCHANGED <<radarParams, radarWaves, waveCounter, stealthMode, queue,
                   effects, timers, now, retired, twin>>

NextPhysics ==
    \/ Evaluate
    \/ Retune
    \/ Rotate

SpecPhysics == InitPhysics /\ [][NextPhysics]_vars

(* --------------------- two runs of the pulse simulation ---------------- *)
(* Both runs get every tick and every render together; each has its own     *)
(* clock.                                                                   *)

TwinClockAdvance(run) ==
    /\ twin[run].now < MaxNow
    /\ twin' = [twin EXCEPT ![run].now = @ + 1]
    /\ UNCHANGED <<planeParams, radarParams, radarResult, radarWaves,
                   waveCounter, stealthMode, queue, effects, timers, now,
                   retired>>

\* the callback of the 1000 ms interval, in both runs
TwinSpawnTick ==
    /\ Len(twin.a.waves) < MaxPending
    /\ twin.a.counter < MaxSpawnsP
    /\ twin' = [run \in {"a", "b"} |->
                  [twin[run] EXCEPT
                     !.counter = @ + 1,
                     !.waves = Append(@, Update("append", twin[run].now))]]
    /\ UNCHANGED <<planeParams, radarParams, radarResult, radarWaves,
                   waveCounter, stealthMode, queue, effects, timers, now,
                   retired>>

\* the callback of the 50 ms interval, in both runs
TwinAdvanceTick ==
    /\ Len(twin.a.waves) < MaxPending
    /\ twin' = [run \in {"a", "b"} |->
                  [twin[run] EXCEPT
                     !.waves = Append(@, Update("advance", 0))]]
    /\ UNCHANGED <<planeParams, radarParams, radarResult, radarWaves,
                   waveCounter, stealthMode, queue, effects, timers, now,
                   retired>>

\* the render, in both runs
TwinRender ==
    /\ twin.a.waves # <<>>
    /\ twin' = [run \in {"a", "b"} |->
                  [twin[run] EXCEPT
                     !.radarWaves = ApplyWaveQueue(@, twin[run].waves),
                     !.waves = <<>>]]
    /\ UNCHANGED <<planeParams, radarParams, radarResult, radarWaves,
                   waveCounter, stealthMode, queue, effects, timers, now,
                   retired>>

NextTwin ==
    \/ TwinClockAdvance("a")
    \/ TwinClockAdvance("b")
    \/ TwinSpawnTick
    \/ TwinAdvanceTick
    \/ TwinRender

SpecTwin == Init /\ [][NextTwin]_vars

(* ------------------ handlers called in quick succession --------------- *)
(* The same handlers and controls, with room for several calls between two *)
(* renders; no interval runs.                                              *)

(* ------------------ the pulse simulation, with fairness --------------- *)
(* The intervals fire for ever and React renders what is queued: the        *)
(* advance callback runs again and again (the cap on waiting calls only     *)
(* delays it, hence strong fairness), renders and effects are not put off   *)
(* for ever.  A radar-configuration write may come at any time.  The clock  *)
(* stands still, so the pulses all carry the identifier `now`.              *)

\* the step that runs the pending effects: the only one that empties
\* `effects`
EffectsRun == effects # {} /\ effects' = {}

NextPulseFair ==
    \/ SpawnTick(MaxSpawnsP)
    \/ AdvanceTick(MaxDistance)
    \/ RangeSlider
    \/ Render
    \/ RunEffects

SpecPulseFair ==
    /\ Init
    /\ [][NextPulseFair]_vars
    /\ SF_vars(AdvanceTick(MaxDistance))
    /\ WF_vars(Render)
    /\ WF_effects(EffectsRun)

(* --------------- the control panel at the ends of its sliders --------- *)

EndPositionXSlider ==
    \E value \in EndXValues :
        handlePlaneParamsChange(
            [position |-> [planeParams.position EXCEPT !.x = value]])

EndPositionYSlider ==
    \E value \in EndYValues :
        handlePlaneParamsChange(
            [position |-> [planeParams.position EXCEPT !.y = value]])

EndPositionZSlider ==
    \E value \in EndZValues :
        handlePlaneParamsChange(
            [position |-> [planeParams.position EXCEPT !.z = value]])

EndRangeSlider ==
    \E value \in EndRangeValues :
        handleRadarParamsChange([range |-> value])

EndAngleSlider ==
    \E value \in EndAngleValues :
        handlePlaneParamsChange([angleToRadar |-> value])

EndRCSSlider ==
    \E value \in EndRCSValues :
        handlePlaneParamsChange([radarCrossSection |-> value])

EndAbsorptionSlider ==
    \E value \in EndAbsorptionPercentValues :
        handlePlaneParamsChange([absorptionCoefficient |-> value])

\* the position and range sliders
NextPosition ==
    \/ EndPositionXSlider
    \/ EndPositionYSlider
    \/ EndPositionZSlider
    \/ EndRangeSlider
    \/ Render
    \/ RunEffects

SpecPosition == Init /\ [][NextPosition]_vars

\* the angle, RCS and absorption sliders and the stealth toggle
NextAircraft ==
    \/ EndAngleSlider
    \/ EndRCSSlider
    \/ EndAbsorptionSlider
    \/ toggleStealthMode
    \/ Render
    \/ RunEffects

SpecAircraft == Init /\ [][NextAircraft]_vars

RapidPlaneParamsChange(params) ==
    /\ Pending < MaxRapid
    /\ queue' = [queue EXCEPT !.plane = Append(@, Update("merge", params))]
    /\ UNCHANGED <<planeParams, radarParams, radarResult, radarWaves,
                   waveCounter, stealthMode, effects, timers, now, retired,
                   twin>>

RapidToggleStealthMode ==
    /\ Pending < MaxRapid
    /\ IF ~stealthMode
       THEN queue' = [queue EXCEPT
                        !.plane = Append(@, Update("set",
                                     getOptimalStealthParams(planeParams.position))),
                        !.stealth = Append(@, TRUE)]
       ELSE queue' = [queue EXCEPT !.stealth = Append(@, FALSE)]
    /\ UNCHANGED <<planeParams, radarParams, radarResult, radarWaves,
                   waveCounter, stealthMode, effects, timers, now, retired,
                   twin>>

RapidGeometrySelect ==
    \E value \in GeometryValues :
        RapidPlaneParamsChange([geometry |-> value])

RapidPositionXSlider ==
    \E value \in XValues :
        RapidPlaneParamsChange(
            [position |-> [planeParams.position EXCEPT !.x = value]])

RapidPositionZSlider ==
    \E value \in RapidZValues :
        RapidPlaneParamsChange(
            [position |-> [planeParams.position EXCEPT !.z = value]])

NextRapid ==
    \/ RapidGeometrySelect
    \/ RapidPositionXSlider
    \/ RapidPositionZSlider
    \/ RapidToggleStealthMode
    \/ Render
    \/ RunEffects

SpecRapid == Init /\ [][NextRapid]_vars

(* ----------------------- steps and derived state ---------------------- *)

\* the state the next render will show: the queued updates applied
LogicalPlane == ApplyObjectQueue(planeParams, queue.plane)
LogicalRadar == ApplyObjectQueue(radarParams, queue.radar)
LogicalWaves == ApplyWaveQueue(radarWaves, queue.waves)
LogicalStealth == ApplyValueQueue(stealthMode, queue.stealth)

Canonical(params) ==
    /\ params.radarCrossSection = 1
    /\ params.absorptionCoefficient = 95
    /\ params.geometry = "stealth"
    /\ params.angleToRadar = 0

RenderStep == queue # EmptyQueue /\ queue' = EmptyQueue
CheckStep == "stealth" \in effects /\ effects' = {}
EnterStealthStep == queue'.stealth = Append(queue.stealth, TRUE)
ExitStealthStep ==
    /\ stealthMode
    /\ effects' = effects
    /\ queue'.stealth = Append(queue.stealth, FALSE)
SpawnStep == queue'.counter = queue.counter + 1

(* ------------------------------ claims -------------------------------- *)

\* C1: in every rendered state, stealthMode = TRUE implies that the
\* aircraft configuration is the canonical stealth configuration.
C1_StealthImpliesCanonical == stealthMode => Canonical(planeParams)

\* C2: when stealthMode is TRUE and the rendered configuration is not the
\* canonical one, the invariant check is pending or has run; when it runs it
\* queues stealthMode = FALSE and leaves the configuration and its queue
\* alone, so the next render shows stealthMode = FALSE.
C2_CheckDeactivates ==
    /\ [][(CheckStep /\ stealthMode /\ ~Canonical(planeParams))
            => /\ LogicalStealth' = FALSE
               /\ planeParams' = planeParams
               /\ queue'.plane = queue.plane]_vars
    /\ []((stealthMode /\ ~Canonical(planeParams))
            => ("stealth" \in effects \/ LogicalStealth = FALSE))

C2_Witness ==
    /\ stealthMode
    /\ ~Canonical(planeParams)
    /\ effects = {}
    /\ queue.stealth = <<FALSE>>

\* C3: toggling stealth while stealthMode is FALSE makes the configuration
\* of the next render the canonical one with the position of the render the
\* toggle was invoked in, and makes its stealthMode TRUE; the render commits
\* exactly that.
C3_EnterStealth ==
    /\ [][EnterStealthStep
            => /\ LogicalPlane' =
                    [radarCrossSection |-> 1, absorptionCoefficient |-> 95,
                     geometry |-> "stealth", angleToRadar |-> 0,
                     position |-> planeParams.position]
               /\ LogicalStealth' = TRUE]_vars
    /\ [][RenderStep
            => /\ planeParams' = LogicalPlane
               /\ stealthMode' = LogicalStealth]_vars

C3_Witness ==
    /\ stealthMode
    /\ Canonical(planeParams)
    /\ planeParams.position = [x |-> 20, y |-> 8, z |-> 15]
    /\ queue = EmptyQueue

\* C4: the configuration written by enterStealth satisfies
\* isOptimalStealthConfig, and the invariant check that runs on a rendered
\* state with stealthMode TRUE and that configuration queues nothing (the
\* recompute effect that runs with it queues a radarResult only).
C4_EnterStealthIsStable ==
    /\ [][EnterStealthStep => isOptimalStealthConfig(LogicalPlane')]_vars
    /\ [][(CheckStep /\ stealthMode /\ isOptimalStealthConfig(planeParams))
            => [queue' EXCEPT !.result = queue.result] = queue]_vars

C4_Witness ==
    /\ stealthMode
    /\ isOptimalStealthConfig(planeParams)
    /\ effects = {}
    /\ queue = EmptyQueue

\* C5: while stealthMode is TRUE, a render that changes a field of the
\* aircraft configuration leaves a configuration for which
\* isOptimalStealthConfig is FALSE.
C5_AnyChangeBreaksStealth ==
    [][(stealthMode /\ planeParams' # planeParams)
         => ~isOptimalStealthConfig(planeParams')]_vars

\* C6: toggling stealth while stealthMode is TRUE queues stealthMode = FALSE
\* and changes neither the aircraft configuration, the radar configuration,
\* the pulse list nor their queued updates.
C6_ExitStealthFrame ==
    [][ExitStealthStep
         => /\ LogicalStealth' = FALSE
            /\ planeParams' = planeParams /\ LogicalPlane' = LogicalPlane
            /\ radarParams' = radarParams /\ LogicalRadar' = LogicalRadar
            /\ radarWaves' = radarWaves /\ LogicalWaves' = LogicalWaves
            /\ queue'.counter = queue.counter]_vars

C6_Witness ==
    /\ stealthMode
    /\ Canonical(planeParams)
    /\ effects = {}
    /\ radarWaves # <<>>
    /\ queue = [EmptyQueue EXCEPT !.stealth = <<FALSE>>]

RECURSIVE Advances(_)
Advances(q) ==
    IF q = <<>> THEN 0
    ELSE (IF Head(q).kind = "advance" THEN 1 ELSE 0) + Advances(Tail(q))

\* the pulse, advanced n more times, is in the list
Shown(waves, wave, n) ==
    \E j \in 1..Len(waves) :
        waves[j] = [id |-> wave.id,
                    progress |-> wave.progress + n * ProgressStep,
                    distance |-> wave.distance + n * DistanceStep]

\* the pulses a render starts from: the rendered ones, each with the number
\* of queued advance updates it will see, and the ones spawned in the queue
Born(k) == [id |-> queue.waves[k].arg, progress |-> 0, distance |-> 0]
AfterSpawn(k) == Advances(SubSeq(queue.waves, k, Len(queue.waves)))

\* C8 as stated: a pulse, rendered or spawned since the last render, is in
\* the next rendered list unless its progress has reached 1.
C8_PresentUntilProgressOne ==
    [][RenderStep =>
        /\ \A i \in 1..Len(radarWaves) :
             LET n == Advances(queue.waves)
             IN  radarWaves[i].progress + n * ProgressStep < ProgressLimit
                   => Shown(radarWaves', radarWaves[i], n)
        /\ \A k \in 1..Len(queue.waves) :
             (/\ queue.waves[k].kind = "append"
              /\ AfterSpawn(k) * ProgressStep < ProgressLimit)
                => Shown(radarWaves', Born(k), AfterSpawn(k))]_vars

\* C8 amended: a pulse, rendered or spawned since the last render, is in the
\* next rendered list unless its progress has reached 1 or its distance has
\* reached 40.
C8_PresentUntilRetired ==
    [][RenderStep =>
        /\ \A i \in 1..Len(radarWaves) :
             LET n == Advances(queue.waves)
             IN  (/\ radarWaves[i].progress + n * ProgressStep < ProgressLimit
                  /\ radarWaves[i].distance + n * DistanceStep < MaxDistance)
                   => Shown(radarWaves', radarWaves[i], n)
        /\ \A k \in 1..Len(queue.waves) :
             (/\ queue.waves[k].kind = "append"
              /\ AfterSpawn(k) * ProgressStep < ProgressLimit
              /\ AfterSpawn(k) * DistanceStep < MaxDistance)
                => Shown(radarWaves', Born(k), AfterSpawn(k))]_vars

C8_Witness ==
    /\ queue = EmptyQueue
    /\ \E i \in 1..Len(radarWaves) :
          /\ radarWaves[i].distance = MaxDistance - 1
          /\ radarWaves[i].progress = (MaxDistance - 1) * ProgressStep

\* C9: the rendered pulses have pairwise distinct ids, and no rendered pulse
\* carries the id of a pulse that was removed from the list.
C9_UniqueIds ==
    /\ \A i, j \in 1..Len(radarWaves) :
          i # j => radarWaves[i].id # radarWaves[j].id
    /\ WaveIds(radarWaves) \cap retired = {}

\* C10: a spawn tick extends the pulse list of the next render by exactly one
\* pulse with progress 0 and distance 0, after the pulses it already held,
\* and changes nothing in the rendered list.
C10_SpawnAppendsOne ==
    [][SpawnStep =>
        /\ radarWaves' = radarWaves
        /\ Len(LogicalWaves') = Len(LogicalWaves) + 1
        /\ SubSeq(LogicalWaves', 1, Len(LogicalWaves)) = LogicalWaves
        /\ LogicalWaves'[Len(LogicalWaves')].progress = 0
        /\ LogicalWaves'[Len(LogicalWaves')].distance = 0]_vars

C10_Witness ==
    /\ Len(radarWaves) = 2
    /\ radarWaves[1].distance > 0
    /\ radarWaves[2].distance = 0
    /\ radarWaves[2].progress = 0

AdvanceStep == queue'.waves = Append(queue.waves, Update("advance", 0))

\* the list an advance tick is to leave: every pulse one step further, minus
\* the pulses that satisfy gone
Advanced(waves, gone(_)) ==
    LET moved == [i \in 1..Len(waves) |->
                    [id |-> waves[i].id,
                     progress |-> waves[i].progress + 2,
                     distance |-> waves[i].distance + 1]]
        stays(wave) == ~gone(wave)
    IN SelectSeq(moved, stays)

GoneBeyondRadius(wave) == wave.progress >= 100 \/ wave.distance > 40
GoneAtRadius(wave) == wave.progress >= 100 \/ wave.distance >= 40

\* C11 as stated: after an advance tick the pulse list of the next render is
\* the previous one with progress + 0.02 and distance + 1, minus the pulses
\* whose new progress is >= 1 or whose new distance exceeds 40; no other step
\* shortens the list.
C11_AdvanceBeyondRadius ==
    /\ [][AdvanceStep
            => LogicalWaves' = Advanced(LogicalWaves, GoneBeyondRadius)]_vars
    /\ [][Len(LogicalWaves') < Len(LogicalWaves) => AdvanceStep]_vars

\* C11 amended: as above, minus the pulses whose new progress is >= 1 or
\* whose new distance has reached 40.
C11_AdvanceAtRadius ==
    /\ [][AdvanceStep
            => LogicalWaves' = Advanced(LogicalWaves, GoneAtRadius)]_vars
    /\ [][Len(LogicalWaves') < Len(LogicalWaves) => AdvanceStep]_vars
    /\ [][Len(radarWaves') < Len(radarWaves)
            => RenderStep /\ Advances(queue.waves) > 0]_vars

C11_Witness ==
    /\ Len(radarWaves) = 2
    /\ radarWaves[1].distance = MaxDistance - 1
    /\ radarWaves[2].distance > 0
    /\ Advances(queue.waves) = 1
    /\ Len(LogicalWaves) = 1
    /\ LogicalWaves[1].progress = radarWaves[2].progress + ProgressStep

\* C12: every rendered pulse has 0 <= progress < 1 and 0 <= distance < 40.
C12_PulseRanges ==
    \A i \in 1..Len(radarWaves) :
        /\ 0 <= radarWaves[i].progress /\ radarWaves[i].progress < 100
        /\ 0 <= radarWaves[i].distance /\ radarWaves[i].distance < 40

C12_Witness ==
    \E i \in 1..Len(radarWaves) :
        radarWaves[i].distance = 39 /\ radarWaves[i].progress = 78

\* C20: the pulse list of the next render changes only by a spawn tick or an
\* advance tick, and the rendered pulse list changes only in a render that
\* applies such ticks: configuration writes and stealth toggles leave both.
C20_OnlyTicksTouchPulses ==
    /\ [][LogicalWaves' # LogicalWaves => (SpawnStep \/ AdvanceStep)]_vars
    /\ [][queue'.waves # queue.waves
            => (SpawnStep \/ AdvanceStep \/ RenderStep)]_vars
    /\ [][radarWaves' # radarWaves
            => RenderStep /\ queue.waves # <<>>]_vars

C20_Witness ==
    /\ stealthMode
    /\ radarWaves # <<>>
    /\ radarWaves[1].distance > 0
    /\ radarParams.range = 10
    /\ planeParams.position.x = 20
    /\ queue = EmptyQueue

(* ----------------------- claims on the library ------------------------ *)

\* the call has been made (SpecPhysics)
Evaluated == effects = {}
DistanceSquared ==
    planeParams.position.x * planeParams.position.x
      + planeParams.position.y * planeParams.position.y
      + planeParams.position.z * planeParams.position.z
RangeSquared == (radarParams.range * 1000) * (radarParams.range * 1000)
CurrentSNR == radarResult.signalStrength - radarParams.sensitivity

\* C13: whenever distance > range x 1000 the result is detectionProbability
\* 0, signalStrength -200, effectiveRCS 0, isDetected false, whatever the
\* other parameters, with the computed distance and angle; a target at
\* distance exactly range x 1000 is not gated.
C13_RangeGate ==
    Evaluated =>
      /\ radarResult.distance.square = DistanceSquared
      /\ radarResult.angle = Atan2(planeParams.position.x, planeParams.position.z)
      /\ DistanceSquared > RangeSquared =>
           /\ radarResult.detectionProbability = 0
           /\ radarResult.signalStrength = -20000
           /\ radarResult.effectiveRCS = 0
           /\ radarResult.isDetected = FALSE
      /\ DistanceSquared = RangeSquared =>
           /\ radarResult.effectiveRCS > 0
           /\ radarResult.signalStrength # -20000

C13_Witness ==
    /\ Evaluated
    /\ DistanceSquared = RangeSquared + 1
    /\ planeParams.geometry = "conventional"
    /\ planeParams.absorptionCoefficient = 0
    /\ SignalStrength(planeParams, radarParams, radarResult.distance)
         - radarParams.sensitivity = 300
    /\ radarResult.detectionProbability = 0

\* C14: for an in-range target detectionProbability is 1.0 when SNR > 10,
\* SNR / 10 when 0 < SNR <= 10, max(0, (SNR + 10) / 20) when -10 < SNR <= 0
\* and 0 when SNR <= -10, so it lies in [0, 1].
C14_FourSegments ==
    Evaluated /\ DistanceSquared <= RangeSquared =>
      /\ CurrentSNR > 1000 => radarResult.detectionProbability = 2000
      /\ 0 < CurrentSNR /\ CurrentSNR <= 1000 =>
           radarResult.detectionProbability = 2 * CurrentSNR
      /\ -1000 < CurrentSNR /\ CurrentSNR <= 0 =>
           radarResult.detectionProbability = Max(0, CurrentSNR + 1000)
      /\ CurrentSNR <= -1000 => radarResult.detectionProbability = 0
      /\ radarResult.detectionProbability \in 0..2000

C14_Witness ==
    /\ Evaluated
    /\ DistanceSquared <= RangeSquared
    /\ CurrentSNR = 0
    /\ radarResult.detectionProbability = 1000

\* a second call that changed the sensitivity only
RetuneStep ==
    /\ Evaluated /\ Evaluated'
    /\ planeParams' = planeParams
    /\ radarParams' = [radarParams EXCEPT !.sensitivity = radarParams'.sensitivity]
    /\ DistanceSquared <= RangeSquared

\* C15: detectionProbability is non-decreasing in SNR over the whole axis,
\* and continuous at SNR = -10, 0 and 10: two calls whose SNR differ by one
\* hundredth of a decibel differ by at most 0.001 in detectionProbability.
C15_MonotoneContinuous ==
    [][RetuneStep =>
         /\ CurrentSNR' >= CurrentSNR =>
              radarResult'.detectionProbability >= radarResult.detectionProbability
         /\ Abs(CurrentSNR' - CurrentSNR) <= 1 =>
              Abs(radarResult'.detectionProbability
                    - radarResult.detectionProbability) <= 2]_vars

\* C16: isDetected is detectionProbability > one threshold that is the same
\* in both copies of the library, so both copies of calculateRadarReturn
\* return the same RadarResult for every input.
C16_CopiesAgree ==
    Evaluated =>
      /\ radarResult = libCalculateRadarReturn(planeParams, radarParams)
      /\ radarResult.isDetected
           = (radarResult.detectionProbability > DetectionThreshold)

\* a second call with angleToRadar 180 degrees further
RotateStep ==
    /\ Evaluated /\ Evaluated'
    /\ planeParams' = [planeParams EXCEPT !.angleToRadar = @ + 180]
    /\ radarParams' = radarParams

\* the geometry factors of the claim, in thousandths
ClaimedGeometryFactor(geometry) ==
    CASE geometry = "stealth" -> 1
      [] geometry = "fighter" -> 5000
      [] geometry = "conventional" -> 25000

\* C19: for radarCrossSection > 0, any geometry and any angle,
\* calculateEffectiveRCS is strictly positive, is radarCrossSection x
\* geometryFactor x angularFactor with geometryFactor 0.001 / 5.0 / 25.0 and
\* angularFactor >= 1, and is the same 180 degrees further.
C19_EffectiveRCS ==
    /\ [](planeParams.radarCrossSection > 0 =>
            /\ calculateEffectiveRCS(planeParams) > 0
            /\ \E angularFactor \in 16..816 :
                 calculateEffectiveRCS(planeParams)
                   = planeParams.radarCrossSection
                       * ClaimedGeometryFactor(planeParams.geometry)
                       * angularFactor)
    /\ [][RotateStep =>
            /\ calculateEffectiveRCS(planeParams')
                 = calculateEffectiveRCS(planeParams)
            /\ radarResult'.effectiveRCS = radarResult.effectiveRCS]_vars

C19_Witness ==
    /\ Evaluated
    /\ planeParams.angleToRadar = 210
    /\ planeParams.geometry = "fighter"
    /\ radarResult.effectiveRCS
         = planeParams.radarCrossSection * 5000 * 24
             * (100 - planeParams.absorptionCoefficient)

(* --------------------- claims on the whole page, 2 -------------------- *)

CalcStep == "calc" \in effects /\ effects' = {}

\* C17: after a configuration write the recomputation and the stealth check
\* run before the next spawn or advance tick, and no snapshot pairs the new
\* configuration with a radarResult of an older one; once they have run,
\* radarResult is calculateRadarReturn of the current configuration.
C17_RecomputeBeforeTick ==
    /\ [](radarResult # Placeholder =>
            radarResult = calculateRadarReturn(planeParams, radarParams))
    /\ [][SpawnStep \/ AdvanceStep => effects = {}]_vars
    /\ [][CalcStep =>
            queue'.result = Append(queue.result,
                               calculateRadarReturn(planeParams, radarParams))]_vars

\* C18: two runs from the initial state that get the same sequence of spawn
\* and advance ticks show the same pulses, with the same ids, progress and
\* distance, in the same order.
C18_Deterministic == twin.a.radarWaves = twin.b.radarWaves

(* ---------------------- claims of the third part ---------------------- *)

\* C21: isOptimalStealthConfig(c) is true exactly when c.radarCrossSection
\* = 0.001, c.absorptionCoefficient = 0.95, c.geometry = 'stealth' and
\* c.angleToRadar = 0; it is the same for every position.
C21_OptimalIffFourFields ==
    /\ isOptimalStealthConfig(planeParams)
         = (/\ planeParams.radarCrossSection = 1
            /\ planeParams.absorptionCoefficient = 95
            /\ planeParams.geometry = "stealth"
            /\ planeParams.angleToRadar = 0)
    /\ \A position \in PhysicsPositions :
         isOptimalStealthConfig([planeParams EXCEPT !.position = position])
           = isOptimalStealthConfig(planeParams)

C21_Witness ==
    /\ Evaluated
    /\ isOptimalStealthConfig(planeParams)
    /\ planeParams.position = [x |-> 6000, y |-> 1, z |-> 8000]

\* C22: entering stealth keeps the latest submitted position: when a
\* position edit is queued and not yet rendered, the configuration after the
\* toggle has the submitted position.
C22_EnterStealthKeepsSubmittedPosition ==
    [][EnterStealthStep => LogicalPlane'.position = LogicalPlane.position]_vars

\* the scalar fields of an aircraft configuration
Leaves(params) ==
    <<params.radarCrossSection, params.absorptionCoefficient, params.geometry,
      params.angleToRadar, params.position.x, params.position.y,
      params.position.z>>
Differing(p, q) == Cardinality({i \in 1..7 : Leaves(p)[i] # Leaves(q)[i]})

\* a control of the panel submitted an edit
EditStep ==
    /\ Len(queue'.plane) = Len(queue.plane) + 1
    /\ queue'.plane[Len(queue'.plane)].kind = "merge"

\* C23: an edit submitted for one field or one position axis changes that
\* field only and reverts no other: the configuration of the next render
\* differs from the one before the edit in at most one scalar field, so an
\* x edit followed by a z edit before a render leaves both.
C23_EditsAreIndependent ==
    [][EditStep => Differing(LogicalPlane', LogicalPlane) <= 1]_vars

\* C24: every pulse that enters the pulse list is removed from it after
\* finitely many advance ticks, whatever spawn ticks and configuration
\* writes come in between, when the advance driver keeps running.  (The
\* clock stands at 0 in this specification: 0 is the identifier of every
\* pulse.)
C24_EveryPulseRetires ==
    (0 \in WaveIds(radarWaves)) ~> (0 \notin WaveIds(radarWaves))

C24_Witness ==
    /\ retired # {}
    /\ radarWaves = <<>>
    /\ queue.waves = <<>>
    /\ radarParams.range = 10

\* the pulses of a list have been advanced as many times as their distance
\* says, and none has a progress above 0.78
YoungerThanForty(waves) ==
    \A i \in 1..Len(waves) :
        /\ waves[i].progress = 2 * waves[i].distance
        /\ waves[i].progress <= 78

\* C25: a pulse leaves the list in exactly its 40th advance tick, when its
\* distance reaches 40 and its progress is 0.8 (so the progress limit is
\* never the reason), and stays in every earlier one; no pulse list, rendered
\* or about to be, holds a pulse with a progress above 0.78.
C25_RetiredAtFortiethAdvance ==
    /\ [][YoungerThanForty(radarWaves') /\ YoungerThanForty(LogicalWaves')]_vars
    /\ [][AdvanceStep =>
            /\ \A i \in 1..Len(LogicalWaves) :
                  LogicalWaves[i].distance + 1 = 40
                     => /\ LogicalWaves[i].progress + 2 = 80
                        /\ \A j \in 1..Len(LogicalWaves') :
                              LogicalWaves'[j].distance # 40
            /\ Len(LogicalWaves') =
                  Cardinality({i \in 1..Len(LogicalWaves) :
                                  LogicalWaves[i].distance + 1 < 40})]_vars

C25_Witness ==
    /\ Len(radarWaves) = 2
    /\ radarWaves[1].distance = 39
    /\ radarWaves[1].progress = 78
    /\ radarWaves[2].distance < 39
    /\ Advances(queue.waves) = 1
    /\ Len(LogicalWaves) = 1
    /\ LogicalWaves[1].id = radarWaves[2].id

(* --------------- the pulse simulation, keeping the cadence ------------ *)
(* The spawn interval fires every 1000 ms and the advance interval every    *)
(* 50 ms: 20 advance ticks between two consecutive spawn ticks.  The        *)
(* distance of the youngest pulse counts the advance ticks since its spawn. *)

AdvancesPerSpawn == 20

SinceLastSpawn == LogicalWaves[Len(LogicalWaves)].distance

\* the next tick of the two: a spawn tick when 20 advance ticks have
\* followed the last one (no spawn tick follows the last of the run)
SpawnDue ==
    IF LogicalWaves = <<>> THEN waveCounter + queue.counter = 0
    ELSE SinceLastSpawn = AdvancesPerSpawn

AdvanceDue ==
    IF waveCounter + queue.counter = MaxCadenceSpawns \/ LogicalWaves = <<>>
    THEN TRUE
    ELSE SinceLastSpawn < AdvancesPerSpawn

CadenceSpawnTick == SpawnDue /\ SpawnTick(MaxCadenceSpawns)

CadenceAdvanceTick == AdvanceDue /\ AdvanceTick(MaxDistance)

NextCadence ==
    \/ CadenceSpawnTick
    \/ CadenceAdvanceTick
    \/ Render
    \/ RunEffects

SpecCadence == Init /\ [][NextCadence]_vars

\* C26: with exactly 20 advance ticks between two consecutive spawn ticks,
\* no pulse list, rendered or about to be, holds more than 2 pulses.
C26_AtMostTwoPulses == Len(radarWaves) <= 2 /\ Len(LogicalWaves) <= 2

C26_Witness ==
    /\ waveCounter = 3
    /\ Len(radarWaves) = 2
    /\ radarWaves[1].distance = 20
    /\ radarWaves[2].distance = 0

\* C30: the verdict of the engine copy of the page is monotone in SNR: of
\* two calls that differ in the sensitivity only, when the one with the
\* smaller SNR says detected, so does the other.
C30_VerdictMonotone ==
    [][(RetuneStep /\ radarResult.isDetected /\ CurrentSNR' > CurrentSNR)
          => radarResult'.isDetected]_vars

\* the result of the last call is the fixed no-detection result of the gate
Gated == GreaterThan(radarResult.distance, radarParams.range * 1000)

\* C29: for an aircraft within the documented ranges that passes the range
\* gate, distance > 0 and effectiveRCS > 0, and the signal strength and the
\* detection probability of the result are finite.
C29_LogArgumentPositive ==
    (Evaluated /\ ~Gated) =>
        /\ radarResult.distance.square > 0
        /\ radarResult.effectiveRCS > 0
        /\ radarResult.signalStrength < Infinity
        /\ radarResult.signalStrength > -Infinity
        /\ radarResult.detectionProbability \in 0..2000

\* an aircraft configuration within the documented ranges
Documented(params) ==
    /\ params.radarCrossSection > 0
    /\ 0 <= params.absorptionCoefficient /\ params.absorptionCoefficient < 100
    /\ 0 <= params.angleToRadar /\ params.angleToRadar < 360

\* C27: every aircraft configuration reached through control-panel edits and
\* stealth toggles, rendered or submitted, has radarCrossSection > 0,
\* absorptionCoefficient in [0, 1) and angleToRadar in [0, 360).
C27_ConfigurationInRanges == Documented(planeParams) /\ Documented(LogicalPlane)

\* results of calculateRadarReturn the page holds: rendered or queued
Results ==
    {r \in {radarResult} \cup {queue.result[i] : i \in 1..Len(queue.result)} :
        r # Placeholder}

\* C28: for every configuration reached through the position and range
\* sliders, distance <= range x 1000, and no result of calculateRadarReturn
\* is the fixed no-detection result of the range gate.
C28_GateNeverTaken ==
    /\ ~GreaterThan(Distance(planeParams.position), radarParams.range * 1000)
    /\ ~GreaterThan(Distance(LogicalPlane.position), LogicalRadar.range * 1000)
    /\ \A r \in Results :
          /\ ~GreaterThan(r.distance, 10 * 1000)
          /\ r.effectiveRCS > 0
          /\ r.signalStrength # -20000

C28_Witness ==
    /\ effects = {}
    /\ queue = EmptyQueue
    /\ planeParams.position = [x |-> -30, y |-> 30, z |-> -30]
    /\ radarParams.range = 10
    /\ radarResult.distance.square = 2700
    /\ radarResult.effectiveRCS > 0

====
